---- MODULE Spec2Model ----
(***************************************************************************)
(* Failure-domain selection, rack assignment and deprecated-label          *)
(* filtering of the storage cluster reconciler                             *)
(* (determineFailureDomain, determinePlacementRack, ensureNodeRacks,       *)
(* reconcileNodeTopologyMap, filterDeprecatedLabels, CompareStringSlices). *)
(*                                                                         *)
(* Go maps are TLA+ functions over a set of string keys; Go slices are     *)
(* sequences.  The iteration order of a Go map is not defined: wherever    *)
(* the code's result depends on it, the model chooses nondeterministically *)
(* among the results some order produces.                                  *)
(***************************************************************************)
EXTENDS Integers, Sequences, FiniteSets, TLC

VARIABLES
    nodes,          \* nodes.Items: the snapshot of eligible nodes of this pass
    cfg,            \* sc.Spec and getMinimumNodes(sc): FlexibleScaling, Arbiter, MinNodes
    topologySet,    \* sc.Status.NodeTopologies # nil /\ .Labels # nil
    topologyLabels, \* sc.Status.NodeTopologies.Labels
    statusFD,       \* sc.Status.FailureDomain
    nodeCount,      \* r.nodeCount
    pc,             \* position of the pass: "start", "racks", "done", "panic"
    idx,            \* index of the node the second loop of ensureNodeRacks is at
    nodeRacks,      \* ensureNodeRacks' local rack membership map
    patches,        \* label patches applied by r.Client.Patch in this pass
    ret,            \* what determineFailureDomain returned
    trace,          \* observations of the pass (branch taken, discovery, placements)
    input,          \* the status the pass started from
    pass,           \* number of the pass
    prev,           \* how this pass was started and the outcome of the one before
    filt,           \* topology maps after 0, 1, 2 applications of filterDeprecatedLabels
    synth           \* rack maps before and after step 1 of determinePlacementRack

vars == <<nodes, cfg, topologySet, topologyLabels, statusFD, nodeCount, pc, idx,
          nodeRacks, patches, ret, trace, input, pass, prev, filt, synth>>

-----------------------------------------------------------------------------
(* Bounds of the model *)

MaxNodes == 3

MaxUniform == 5

MaxPasses == 2

MaxValues == 2

MaxRacks == 4

-----------------------------------------------------------------------------
(* Strings *)

\* Bytes in increasing order of their code, as far as the names used here need.
Alphabet == "-./0123456789abcdefghijklmnopqrstuvwxyz"

CharCode(c) == CHOOSE i \in 1..Len(Alphabet) : SubSeq(Alphabet, i, i) = c

\* strings.Contains, computed
SubstringOf(s, sub) ==
    \E i \in 1..(Len(s) - Len(sub) + 1) : SubSeq(s, i, i + Len(sub) - 1) = sub

\* SubstringOf for the label keys and substrings of this module, evaluated once
ContainsTable ==
    [p \in {"topology.kubernetes.io/zone", "failure-domain.beta.kubernetes.io/zone",
            "failure-domain.kubernetes.io/zone", "topology.kubernetes.io/region",
            "failure-domain.beta.kubernetes.io/region", "failure-domain.kubernetes.io/region",
            "kubernetes.io/hostname", "topology.rook.io/rack", "rack"}
           \X {"zone", "rack", "host", "topology.kubernetes.io",
               "failure-domain.beta.kubernetes.io", "failure-domain.kubernetes.io",
               "kubernetes.io/hostname", "topology.rook.io"}
        |-> SubstringOf(p[1], p[2])]

\* strings.Contains
StrContains(s, sub) ==
    IF <<s, sub>> \in DOMAIN ContainsTable THEN ContainsTable[<<s, sub>>]
    ELSE SubstringOf(s, sub)

\* Go's < on strings: bytewise lexicographic
StrLess(a, b) ==
    \E i \in 1..Len(b) :
        /\ \A j \in 1..(i - 1) : j <= Len(a) /\ SubSeq(a, j, j) = SubSeq(b, j, j)
        /\ \/ i = Len(a) + 1
           \/ /\ i <= Len(a)
              /\ CharCode(SubSeq(a, i, i)) < CharCode(SubSeq(b, i, i))

RECURSIVE Itoa(_)
Itoa(n) ==
    IF n < 10 THEN SubSeq("0123456789", n + 1, n + 1)
    ELSE Itoa(n \div 10) \o SubSeq("0123456789", (n % 10) + 1, (n % 10) + 1)

\* fmt.Sprintf("rack%d", j)
RackName(j) == "rack" \o Itoa(j)

Range(s) == {s[i] : i \in 1..Len(s)}

RECURSIVE InsertSorted(_, _)
InsertSorted(s, x) ==
    IF s = <<>> THEN <<x>>
    ELSE IF StrLess(x, Head(s)) THEN <<x>> \o s
    ELSE <<Head(s)>> \o InsertSorted(Tail(s), x)

RECURSIVE SortStrings(_)
SortStrings(s) ==
    IF s = <<>> THEN <<>>
    ELSE InsertSorted(SortStrings(SubSeq(s, 1, Len(s) - 1)), s[Len(s)])

\* some enumeration of a finite set, for the loops over a Go map whose result does
\* not depend on the order
RECURSIVE SetToSeq(_)
SetToSeq(S) ==
    IF S = {} THEN <<>>
    ELSE LET x == CHOOSE y \in S : TRUE IN <<x>> \o SetToSeq(S \ {x})

\* the elements of a set of strings in increasing order
RECURSIVE SetToSortedSeq(_)
SetToSortedSeq(S) ==
    IF S = {} THEN <<>>
    ELSE LET x == CHOOSE y \in S : \A z \in S : z = y \/ StrLess(y, z)
         IN <<x>> \o SetToSortedSeq(S \ {x})

-----------------------------------------------------------------------------
(* Go maps and slices *)

EmptyMap == [k \in {} |-> <<>>]

MapPut(m, k, v) == [x \in (DOMAIN m) \cup {k} |-> IF x = k THEN v ELSE m[x]]

MapDelete(m, k) == [x \in (DOMAIN m) \ {k} |-> m[x]]

\* m[k] of a map of slices: nil when the key is absent
Slice(m, k) ==
    IF k \in DOMAIN m THEN [isNil |-> FALSE, elems |-> m[k]]
    ELSE [isNil |-> TRUE, elems |-> <<>>]

CompareStringSlicesAlwaysLen(a, b) ==
    IF a.isNil /\ b.isNil THEN TRUE
    ELSE IF ~(~a.isNil /\ ~b.isNil) THEN FALSE
    ELSE Len(a.elems) = Len(b.elems)

CompareStringSlices(a, b) ==
    IF a.isNil /\ b.isNil THEN TRUE
    ELSE IF ~(~a.isNil /\ ~b.isNil) THEN FALSE
    ELSE IF Len(a.elems) # Len(b.elems) THEN FALSE
    ELSE \A index \in 1..Len(a.elems) : a.elems[index] = b.elems[index]

-----------------------------------------------------------------------------
(* Label keys *)

ZoneKey == "topology.kubernetes.io/zone"

BetaZoneKey == "failure-domain.beta.kubernetes.io/zone"

OldZoneKey == "failure-domain.kubernetes.io/zone"

RegionKey == "topology.kubernetes.io/region"

BetaRegionKey == "failure-domain.beta.kubernetes.io/region"

OldRegionKey == "failure-domain.kubernetes.io/region"

HostnameKey == "kubernetes.io/hostname"

\* defaults.RackTopologyKey
RackTopologyKey == "topology.rook.io/rack"

\* a second label key that contains "rack"
OtherRackKey == "rack"

validTopologyLabelKeys ==
    <<"topology.kubernetes.io", "failure-domain.beta.kubernetes.io",
      "failure-domain.kubernetes.io", "kubernetes.io/hostname", "topology.rook.io">>

\* strings.Contains(label, key) for some key of validTopologyLabelKeys
IsValidTopologyLabel(label) ==
    \E n \in 1..Len(validTopologyLabelKeys) : StrContains(label, validTopologyLabelKeys[n])

\* strings.Contains(label, key) && strings.Contains(label, "zone") for some key
IsZoneLabel(label) == IsValidTopologyLabel(label) /\ StrContains(label, "zone")

-----------------------------------------------------------------------------
(* NodeTopologyMap: Labels maps a key to the slice of its values *)

\* NodeTopologyMap.Contains(key, value)
TopologyContains(m, key, value) == key \in DOMAIN m /\ value \in Range(m[key])

\* NodeTopologyMap.Add(key, value): no-op when the value is already there
TopologyAdd(m, key, value) ==
    IF TopologyContains(m, key, value) THEN m
    ELSE MapPut(m, key, Append(IF key \in DOMAIN m THEN m[key] ELSE <<>>, value))

\* NodeTopologyMap.GetKeyValues(sub): the results the scan of the keys can give,
\* one per key containing sub; the empty key and no values when none does
GetKeyValues(m, sub) ==
    LET match == {k \in DOMAIN m : StrContains(k, sub)}
    IN IF match = {} THEN {[Key |-> "", Values |-> <<>>]}
       ELSE {[Key |-> k, Values |-> SortStrings(m[k])] : k \in match}

-----------------------------------------------------------------------------
(* filterDeprecatedLabels *)

\* sort.Strings(topologyMap.Labels[k]): sorts the slice in place, nothing for no key
SortLabel(m, k) == IF k \in DOMAIN m THEN [m EXCEPT ![k] = SortStrings(@)] ELSE m

\* if CompareStringSlices(Labels[old], Labels[new]) { delete(Labels, old) }
DropIfSame(m, old, new) ==
    IF CompareStringSlices(Slice(m, old), Slice(m, new)) THEN MapDelete(m, old) ELSE m

filterDeprecatedLabelsSortLast(m) ==
    LET d1 == DropIfSame(m, BetaZoneKey, ZoneKey)
        d2 == DropIfSame(d1, BetaRegionKey, RegionKey)
        d3 == DropIfSame(d2, OldZoneKey, ZoneKey)
        d4 == DropIfSame(d3, OldRegionKey, RegionKey)
        s1 == SortLabel(d4, BetaZoneKey)
        s2 == SortLabel(s1, OldZoneKey)
        s3 == SortLabel(s2, ZoneKey)
        s4 == SortLabel(s3, BetaRegionKey)
        s5 == SortLabel(s4, OldRegionKey)
    IN SortLabel(s5, RegionKey)

filterDeprecatedLabels(m) ==
    LET s1 == SortLabel(m, BetaZoneKey)
        s2 == SortLabel(s1, OldZoneKey)
        s3 == SortLabel(s2, ZoneKey)
        s4 == SortLabel(s3, BetaRegionKey)
        s5 == SortLabel(s4, OldRegionKey)
        s6 == SortLabel(s5, RegionKey)
        d1 == DropIfSame(s6, BetaZoneKey, ZoneKey)
        d2 == DropIfSame(d1, BetaRegionKey, RegionKey)
        d3 == DropIfSame(d2, OldZoneKey, ZoneKey)
    IN DropIfSame(d3, OldRegionKey, RegionKey)

-----------------------------------------------------------------------------
(* reconcileNodeTopologyMap *)

EnoughNodesAlways(count, minNodes) == TRUE

\* lines 278-280: if r.nodeCount < minNodes { return fmt.Errorf(...) }
EnoughNodes(count, minNodes) == ~(count < minNodes)

\* the inner loops over one node's labels: every valid topology label is added
RECURSIVE AddNodeLabels(_, _, _)
AddNodeLabels(m, labels, keys) ==
    IF keys = <<>> THEN m
    ELSE LET label == Head(keys)
             m1 == IF IsValidTopologyLabel(label)
                   THEN TopologyAdd(m, label, labels[label]) ELSE m
         IN AddNodeLabels(m1, labels, Tail(keys))

\* the loop over nodes.Items (lines 282-296)
RECURSIVE Discover(_, _)
Discover(m, ns) ==
    IF ns = <<>> THEN m
    ELSE Discover(AddNodeLabels(m, Head(ns).Labels, SetToSeq(DOMAIN Head(ns).Labels)),
                  Tail(ns))

-----------------------------------------------------------------------------
(* determinePlacementRack *)

RECURSIVE SynthesizeRacksNoSkip(_, _, _)
SynthesizeRacksNoSkip(m, i, minRacks) ==
    IF i >= minRacks THEN m
    ELSE SynthesizeRacksNoSkip(MapPut(m, RackName(i), <<>>), i + 1, minRacks)

\* lines 111-121: for i := len(Labels); i < minRacks; i++ { first free rack<j>, j <= i }
RECURSIVE SynthesizeRacks(_, _, _)
SynthesizeRacks(m, i, minRacks) ==
    IF i >= minRacks THEN m
    ELSE LET free == {j \in 0..i : RackName(j) \notin DOMAIN m}
         IN IF free = {} THEN SynthesizeRacks(m, i + 1, minRacks)
            ELSE LET j == CHOOSE x \in free : \A y \in free : x <= y
                 IN SynthesizeRacks(MapPut(m, RackName(j), <<>>), i + 1, minRacks)

\* lines 123-134: the value of the first zone label the iteration over node.Labels
\* meets whose value is not empty; every such label can be the first
TargetAZs(node) ==
    LET vals == {node.Labels[l] : l \in {k \in DOMAIN node.Labels : IsZoneLabel(k)}} \ {""}
    IN IF vals = {} THEN {""} ELSE vals

\* lines 146-160: the first node of nodes.Items named nodeName carries a zone label
\* whose value is targetAZ
MemberInAZ(ns, nodeName, targetAZ) ==
    LET at == {i \in 1..Len(ns) : ns[i].Name = nodeName}
    IN /\ at # {}
       /\ LET n == ns[CHOOSE i \in at : \A k \in at : i <= k]
          IN \E label \in DOMAIN n.Labels : IsZoneLabel(label) /\ n.Labels[label] = targetAZ

\* lines 144-165
ValidRack(ns, m, rack, targetAZ) ==
    \E n \in 1..Len(m[rack]) : MemberInAZ(ns, m[rack][n], targetAZ)

\* lines 136-176: the candidate racks, sorted
RackList(ns, m, targetAZ) ==
    IF Len(targetAZ) > 0
    THEN SetToSortedSeq({rack \in DOMAIN m : Len(m[rack]) = 0 \/ ValidRack(ns, m, rack, targetAZ)})
    ELSE SetToSortedSeq(DOMAIN m)

RECURSIVE FewestFromLast(_, _, _)
FewestFromLast(m, rackList, rack) ==
    IF rackList = <<>> THEN rack
    ELSE FewestFromLast(m, Tail(rackList),
                        IF Len(m[Head(rackList)]) <= Len(m[rack]) THEN Head(rackList) ELSE rack)

RECURSIVE FewestFrom(_, _, _)
FewestFrom(m, rackList, rack) ==
    IF rackList = <<>> THEN rack
    ELSE FewestFrom(m, Tail(rackList),
                    IF Len(m[Head(rackList)]) < Len(m[rack]) THEN Head(rackList) ELSE rack)

PickRackFirst(m, rackList) == rackList[1]

\* lines 177-185: rack := rackList[0], then the first rack with the fewest nodes
PickRack(m, rackList) == FewestFrom(m, rackList, rackList[1])

-----------------------------------------------------------------------------
(* ensureNodeRacks *)

\* lines 217-223 for one node: it joins the rack named by each label containing "rack"
RECURSIVE AddRackLabels(_, _, _)
AddRackLabels(m, node, keys) ==
    IF keys = <<>> THEN m
    ELSE LET label == Head(keys)
             m1 == IF StrContains(label, "rack")
                   THEN TopologyAdd(m, node.Labels[label], node.Name) ELSE m
         IN AddRackLabels(m1, node, Tail(keys))

\* lines 213-225
RECURSIVE ExistingRacks(_, _)
ExistingRacks(m, ns) ==
    IF ns = <<>> THEN m
    ELSE ExistingRacks(AddRackLabels(m, Head(ns), SetToSeq(DOMAIN Head(ns).Labels)),
                       Tail(ns))

HasRackNever(m, name) == FALSE

\* lines 228-240
HasRack(m, name) == \E rack \in DOMAIN m : name \in Range(m[rack])

PatchErrIgnored(patchOk) == FALSE

\* lines 257-260: err = r.Client.Patch(...); if err != nil { return err }
PatchErrReturns(patchOk) == ~patchOk

-----------------------------------------------------------------------------
(* determineFailureDomain: the choice of the branch *)

ZoneEligibleAtTwo(m, arbiter) ==
    \E label \in DOMAIN m : StrContains(label, "zone") /\ Len(m[label]) >= 2

\* lines 80-88: some key containing "zone" has enough values
ZoneEligible(m, arbiter) ==
    \E label \in DOMAIN m :
        /\ StrContains(label, "zone")
        /\ ((Len(m[label]) >= 2 /\ arbiter) \/ Len(m[label]) >= 3)

SelectBranchNoZone(fd, flexibleScaling, m, arbiter) ==
    IF fd # "" THEN "cached"
    ELSE IF flexibleScaling THEN "flex"
    ELSE "rack"

SelectBranchFlexFirst(fd, flexibleScaling, m, arbiter) ==
    IF flexibleScaling THEN "flex"
    ELSE IF fd # "" THEN "cached"
    ELSE IF ZoneEligible(m, arbiter) THEN "zone"
    ELSE "rack"

SelectBranchZoneFirst(fd, flexibleScaling, m, arbiter) ==
    IF fd # "" THEN "cached"
    ELSE IF ZoneEligible(m, arbiter) THEN "zone"
    ELSE IF flexibleScaling THEN "flex"
    ELSE "rack"

\* lines 68-97: the first of the four branches whose condition holds
SelectBranch(fd, flexibleScaling, m, arbiter) ==
    IF fd # "" THEN "cached"
    ELSE IF flexibleScaling THEN "flex"
    ELSE IF ZoneEligible(m, arbiter) THEN "zone"
    ELSE "rack"

\* failureDomain.Type of the branches that return at once
BranchType(branch, fd) ==
    IF branch = "cached" THEN fd ELSE IF branch = "flex" THEN "host" ELSE "zone"

NoRet == [Type |-> "", Key |-> "", Values |-> <<>>, err |-> ""]

ErrRet(e) == [Type |-> "", Key |-> "", Values |-> <<>>, err |-> e]

NoTrace == [listed |-> FALSE, discovery |-> "none", branch |-> "none", placements |-> <<>>]

-----------------------------------------------------------------------------
(* The pass: determineFailureDomain with ensureNodeRacks, one node per step *)

\* lines 50-97 up to the loop of ensureNodeRacks over the nodes without a rack
Start ==
    /\ pc = "start"
    /\ \E listErr \in BOOLEAN :
        IF listErr
        THEN /\ ret' = ErrRet("list")
             /\ pc' = "done"
             /\ trace' = NoTrace
             /\ UNCHANGED <<topologySet, topologyLabels, nodeCount, idx, nodeRacks>>
        ELSE IF ~topologySet /\ ~EnoughNodes(Len(nodes), cfg.MinNodes)
        THEN /\ topologySet' = TRUE
             /\ topologyLabels' = EmptyMap
             /\ nodeCount' = Len(nodes)
             /\ ret' = ErrRet("topology")
             /\ pc' = "done"
             /\ trace' = [NoTrace EXCEPT !.listed = TRUE, !.discovery = "failed"]
             /\ UNCHANGED <<idx, nodeRacks>>
        ELSE LET discovered == IF topologySet THEN topologyLabels
                               ELSE Discover(EmptyMap, nodes)
                 filtered == filterDeprecatedLabels(discovered)
                 branch == SelectBranch(statusFD, cfg.FlexibleScaling, filtered, cfg.Arbiter)
             IN /\ topologySet' = TRUE
                /\ topologyLabels' = filtered
                /\ nodeCount' = IF topologySet THEN nodeCount ELSE Len(nodes)
                /\ trace' = [NoTrace EXCEPT !.listed = TRUE,
                                            !.discovery = IF topologySet THEN "none" ELSE "ok",
                                            !.branch = branch]
                /\ IF branch = "rack"
                   THEN /\ nodeRacks' = ExistingRacks(EmptyMap, nodes)
                        /\ idx' = 1
                        /\ pc' = "racks"
                        /\ ret' = NoRet
                   ELSE /\ \E kv \in GetKeyValues(filtered, BranchType(branch, statusFD)) :
                              ret' = [Type |-> BranchType(branch, statusFD), Key |-> kv.Key,
                                      Values |-> kv.Values, err |-> ""]
                        /\ pc' = "done"
                        /\ UNCHANGED <<idx, nodeRacks>>
    /\ UNCHANGED <<nodes, cfg, statusFD, patches, input, pass, prev, filt, synth>>

\* lines 227-262 for the node at idx
AssignNode ==
    /\ pc = "racks"
    /\ idx <= Len(nodes)
    /\ LET node == nodes[idx]
       IN IF HasRack(nodeRacks, node.Name)
          THEN /\ idx' = idx + 1
               /\ UNCHANGED <<nodeRacks, topologyLabels, patches, ret, pc, trace>>
          ELSE \E targetAZ \in TargetAZs(node) :
                LET racks == SynthesizeRacks(nodeRacks, Cardinality(DOMAIN nodeRacks), cfg.MinNodes)
                    rackList == RackList(nodes, racks, targetAZ)
                IN IF rackList = <<>>
                   THEN \* rackList[0]: index out of range
                        /\ pc' = "panic"
                        /\ nodeRacks' = racks
                        /\ trace' = [trace EXCEPT !.placements = Append(@,
                                       [node |-> node.Name, az |-> targetAZ, before |-> racks,
                                        candidates |-> rackList, rack |-> "",
                                        patched |-> FALSE])]
                        /\ UNCHANGED <<idx, topologyLabels, patches, ret>>
                   ELSE LET rack == PickRack(racks, rackList)
                        IN /\ nodeRacks' = TopologyAdd(racks, rack, node.Name)
                           /\ topologyLabels' = TopologyAdd(topologyLabels, RackTopologyKey, rack)
                           /\ \E patchOk \in BOOLEAN :
                                /\ trace' = [trace EXCEPT !.placements = Append(@,
                                               [node |-> node.Name, az |-> targetAZ,
                                                before |-> racks, candidates |-> rackList,
                                                rack |-> rack, patched |-> patchOk])]
                                /\ patches' = IF patchOk
                                              THEN Append(patches, <<node.Name, rack>>)
                                              ELSE patches
                                /\ IF PatchErrReturns(patchOk)
                                   THEN /\ ret' = ErrRet("patch")
                                        /\ pc' = "done"
                                        /\ UNCHANGED idx
                                   ELSE /\ idx' = idx + 1
                                        /\ UNCHANGED <<ret, pc>>
    /\ UNCHANGED <<nodes, cfg, topologySet, statusFD, nodeCount, input, pass, prev, filt, synth>>

\* lines 264 and 95-97: ensureNodeRacks returns nil, the type is rack
FinishRacks ==
    /\ pc = "racks"
    /\ idx > Len(nodes)
    /\ \E kv \in GetKeyValues(topologyLabels, "rack") :
          ret' = [Type |-> "rack", Key |-> kv.Key, Values |-> kv.Values, err |-> ""]
    /\ pc' = "done"
    /\ UNCHANGED <<nodes, cfg, topologySet, topologyLabels, statusFD, nodeCount, idx,
                   nodeRacks, patches, trace, input, pass, prev, filt, synth>>

-----------------------------------------------------------------------------
(* The caller: a pass is retried on the same inputs, or its outcome is      *)
(* recorded and a later pass runs on the cluster as the pass left it        *)

Outcome(mode) ==
    [mode |-> mode, pc |-> pc, ret |-> ret, nodeRacks |-> nodeRacks, patches |-> patches,
     topologyLabels |-> topologyLabels]

Status(set, labels, fd, count) ==
    [topologySet |-> set, topologyLabels |-> labels, statusFD |-> fd, nodeCount |-> count]

ApplyPatchesNone(ns, ps) == ns

\* the strategic merge patch of ensureNodeRacks: the rack label is set on the node
RECURSIVE ApplyPatches(_, _)
ApplyPatches(ns, ps) ==
    IF ps = <<>> THEN ns
    ELSE ApplyPatches(
            [i \in 1..Len(ns) |->
                IF ns[i].Name = Head(ps)[1]
                THEN [ns[i] EXCEPT !.Labels = MapPut(@, RackTopologyKey, Head(ps)[2])]
                ELSE ns[i]],
            Tail(ps))

\* the same pass again, from the same node snapshot, status and configuration
Rerun ==
    /\ pc \in {"done", "panic"}
    /\ pass < MaxPasses
    /\ pass' = pass + 1
    /\ prev' = Outcome("rerun")
    /\ topologySet' = input.topologySet
    /\ topologyLabels' = input.topologyLabels
    /\ nodeCount' = input.nodeCount
    /\ pc' = "start"
    /\ idx' = 0
    /\ nodeRacks' = EmptyMap
    /\ patches' = <<>>
    /\ ret' = NoRet
    /\ trace' = NoTrace
    /\ UNCHANGED <<nodes, cfg, statusFD, input, filt, synth>>

\* the caller records the returned type in the status; the next pass sees the
\* topology map as this pass left it and the nodes with the patches applied
NextPass ==
    /\ pc = "done"
    /\ pass < MaxPasses
    /\ pass' = pass + 1
    /\ prev' = Outcome("next")
    /\ statusFD' = IF ret.err = "" THEN ret.Type ELSE statusFD
    /\ nodes' = ApplyPatches(nodes, patches)
    /\ \E flex \in BOOLEAN : cfg' = [cfg EXCEPT !.FlexibleScaling = flex]
    /\ input' = Status(topologySet, topologyLabels, statusFD', nodeCount)
    /\ pc' = "start"
    /\ idx' = 0
    /\ nodeRacks' = EmptyMap
    /\ patches' = <<>>
    /\ ret' = NoRet
    /\ trace' = NoTrace
    /\ UNCHANGED <<topologySet, topologyLabels, nodeCount, filt, synth>>

\* the caller retries the pass without having recorded a type: the next pass sees
\* the topology map as this pass left it and the nodes with the patches applied
RetryPass ==
    /\ pc = "done"
    /\ pass < MaxPasses
    /\ trace.branch = "rack"
    /\ pass' = pass + 1
    /\ prev' = Outcome("retry")
    /\ nodes' = ApplyPatches(nodes, patches)
    /\ input' = Status(topologySet, topologyLabels, statusFD, nodeCount)
    /\ pc' = "start"
    /\ idx' = 0
    /\ nodeRacks' = EmptyMap
    /\ patches' = <<>>
    /\ ret' = NoRet
    /\ trace' = NoTrace
    /\ UNCHANGED <<cfg, topologySet, topologyLabels, statusFD, nodeCount, filt, synth>>

-----------------------------------------------------------------------------
(* Inputs *)

NodeName(i) == "n" \o Itoa(i)

\* every node carries its hostname label
Node(i, labels) == [Name |-> NodeName(i), Labels |-> MapPut(labels, HostnameKey, NodeName(i))]

NodeLists(kinds, n) == {[i \in 1..n |-> Node(i, f[i])] : f \in [1..n -> kinds]}

Plain == EmptyMap

InZone(z) == MapPut(EmptyMap, ZoneKey, z)

\* two zone labels that disagree
InTwoZones == MapPut(MapPut(EmptyMap, BetaZoneKey, "a"), ZoneKey, "b")

InRack(labels, r) == MapPut(labels, RackTopologyKey, r)

\* two rack labels that disagree
InTwoRacks == MapPut(MapPut(EmptyMap, RackTopologyKey, "rack1"), OtherRackKey, "rack0")

RackKinds ==
    {Plain, InZone("a"), InZone("b"), InTwoZones,
     InRack(Plain, "rack1"), InRack(InZone("a"), "rack1"), InRack(InZone("b"), "rack1"),
     InTwoRacks}

Config(flex, arbiter, minNodes) ==
    [FlexibleScaling |-> flex, Arbiter |-> arbiter, MinNodes |-> minNodes]

MinNodesChoices == {1, 3}

\* an option of a topology-map key: absent, or present with these values
Absent == [has |-> FALSE, v |-> <<>>]

Present(v) == [has |-> TRUE, v |-> v]

Topology(opts) == [k \in {x \in DOMAIN opts : opts[x].has} |-> opts[k].v]

\* the topology map an earlier discovery over these nodes persisted
Discovered(ns) == filterDeprecatedLabels(Discover(EmptyMap, ns))

\* rack assignment: nodes with and without zone and rack labels, no cached type
RackInputs ==
    {[nodes |-> ns, cfg |-> Config(FALSE, FALSE, mn),
      status |-> Status(TRUE, Discovered(ns), "", Len(ns))] :
        ns \in UNION {NodeLists(RackKinds, n) : n \in 0..MaxNodes},
        mn \in MinNodesChoices}

\* longer lists of nodes that carry no zone and no rack label
UniformInputs ==
    {[nodes |-> ns, cfg |-> Config(FALSE, FALSE, mn),
      status |-> Status(TRUE, Discovered(ns), "", Len(ns))] :
        ns \in UNION {NodeLists({Plain}, n) : n \in (MaxNodes + 1)..MaxUniform},
        mn \in MinNodesChoices}

\* six nodes, three in zone a and three in zone b, in every order
TwoZoneInputs ==
    {[nodes |-> [i \in 1..6 |-> Node(i, InZone(IF i \in A THEN "a" ELSE "b"))],
      cfg |-> Config(FALSE, FALSE, 3),
      status |-> Status(FALSE, EmptyMap, "", 0)] :
        A \in {S \in SUBSET (1..6) : Cardinality(S) = 3}}

SelectorTopologies ==
    {Topology([k \in {ZoneKey, BetaZoneKey, RackTopologyKey} |->
                 IF k = ZoneKey THEN z ELSE IF k = BetaZoneKey THEN bz ELSE r]) :
        z \in {Absent, Present(<<"a">>), Present(<<"a", "b">>), Present(<<"c", "a", "b">>)},
        bz \in {Absent, Present(<<"a", "b">>), Present(<<"a", "b", "c">>)},
        r \in {Absent, Present(<<"rack0">>)}}

SelectorNodeLists ==
    {<<>>,
     <<Node(1, InZone("a"))>>,
     <<Node(1, InZone("a")), Node(2, InZone("b")), Node(3, InZone("c"))>>,
     <<Node(1, InZone("a")), Node(2, Plain), Node(3, InZone("b"))>>,
     <<Node(1, InRack(InZone("a"), "rack1")), Node(2, InZone("b")), Node(3, InZone("c"))>>}

\* the selector: any persisted topology map and cached type, any flags
SelectorInputs ==
    {[nodes |-> ns, cfg |-> Config(flex, arbiter, 3),
      status |-> Status(TRUE, m, fd, 3)] :
        ns \in SelectorNodeLists, flex \in BOOLEAN, arbiter \in BOOLEAN,
        m \in SelectorTopologies, fd \in {"", "zone", "rack"}}
    \cup
    {[nodes |-> ns, cfg |-> Config(flex, arbiter, 3),
      status |-> Status(FALSE, EmptyMap, fd, 0)] :
        ns \in SelectorNodeLists, flex \in BOOLEAN, arbiter \in BOOLEAN,
        fd \in {"", "zone", "rack"}}

Inputs == RackInputs \cup UniformInputs \cup TwoZoneInputs \cup SelectorInputs

Init ==
    \E in \in Inputs :
        /\ nodes = in.nodes
        /\ cfg = in.cfg
        /\ topologySet = in.status.topologySet
        /\ topologyLabels = in.status.topologyLabels
        /\ statusFD = in.status.statusFD
        /\ nodeCount = in.status.nodeCount
        /\ input = in.status
        /\ pc = "start"
        /\ idx = 0
        /\ nodeRacks = EmptyMap
        /\ patches = <<>>
        /\ ret = NoRet
        /\ trace = NoTrace
        /\ pass = 1
        /\ prev = [mode |-> "first", pc |-> "start", ret |-> NoRet,
                   nodeRacks |-> EmptyMap, patches |-> <<>>,
                   topologyLabels |-> EmptyMap]
        /\ filt = <<>>
        /\ synth = <<>>

Next == Start \/ AssignNode \/ FinishRacks \/ Rerun \/ NextPass \/ RetryPass

Spec == Init /\ [][Next]_vars

-----------------------------------------------------------------------------
(* filterDeprecatedLabels on its own: the filter applied twice to a topology map *)

FilterValues == {"a", "b", "c"}

\* the slices NodeTopologyMap.Add builds: no value twice, in any order
ValueSlices ==
    {s \in UNION {[1..n -> FilterValues] : n \in 0..MaxValues} :
        \A i, j \in 1..Len(s) : i # j => s[i] # s[j]}

ZoneOptions == {Absent} \cup {Present(s) : s \in ValueSlices}

FilterInputs ==
    {Topology([k \in {ZoneKey, BetaZoneKey, OldZoneKey, RegionKey, BetaRegionKey, OldRegionKey}
                 |-> IF k = ZoneKey THEN z
                     ELSE IF k = BetaZoneKey THEN bz
                     ELSE IF k = OldZoneKey THEN oz
                     ELSE IF k = RegionKey THEN r
                     ELSE IF k = BetaRegionKey THEN br ELSE or]) :
        z \in ZoneOptions, bz \in ZoneOptions, oz \in ZoneOptions,
        r \in {Absent, Present(<<"a">>), Present(<<"a", "b">>)},
        br \in {Absent, Present(<<"b", "a">>)},
        or \in {Absent, Present(<<"b", "a">>)}}
    \cup
    {Topology([k \in {ZoneKey, BetaZoneKey} |-> Present(<<"a", "b", "c">>)])}

FilterInit ==
    /\ filt \in {<<m>> : m \in FilterInputs}
    /\ synth = <<>>
    /\ nodes = <<>>
    /\ cfg = Config(FALSE, FALSE, 0)
    /\ topologySet = FALSE
    /\ topologyLabels = EmptyMap
    /\ statusFD = ""
    /\ nodeCount = 0
    /\ input = Status(FALSE, EmptyMap, "", 0)
    /\ pc = "filter"
    /\ idx = 0
    /\ nodeRacks = EmptyMap
    /\ patches = <<>>
    /\ ret = NoRet
    /\ trace = NoTrace
    /\ pass = 1
    /\ prev = [mode |-> "first", pc |-> "start", ret |-> NoRet,
               nodeRacks |-> EmptyMap, patches |-> <<>>,
                   topologyLabels |-> EmptyMap]

\* filterDeprecatedLabels(topologyMap), on the map the last application left
FilterApply ==
    /\ pc = "filter"
    /\ Len(filt) < 3
    /\ filt' = Append(filt, filterDeprecatedLabels(filt[Len(filt)]))
    /\ UNCHANGED <<nodes, cfg, topologySet, topologyLabels, statusFD, nodeCount, pc, idx,
                   nodeRacks, patches, ret, trace, input, pass, prev, synth>>

FilterNext == FilterApply

SpecFilter == FilterInit /\ [][FilterNext]_vars

-----------------------------------------------------------------------------
(* Step 1 of determinePlacementRack on its own: rack synthesis on any rack map *)

\* rack names of the form rack<index>, and one that is not
SynthNames == {RackName(j) : j \in 0..(MaxRacks - 1)} \cup {"rackA"}

\* a rack is absent, empty, or holds a node
SynthInputs ==
    {Topology(f) : f \in [SynthNames -> {Absent, Present(<<>>), Present(<<"n1">>)}]}

SynthInit ==
    /\ synth \in {<<m>> : m \in SynthInputs}
    /\ cfg \in {Config(FALSE, FALSE, minRacks) : minRacks \in 0..MaxRacks}
    /\ filt = <<>>
    /\ nodes = <<>>
    /\ topologySet = FALSE
    /\ topologyLabels = EmptyMap
    /\ statusFD = ""
    /\ nodeCount = 0
    /\ input = Status(FALSE, EmptyMap, "", 0)
    /\ pc = "synth"
    /\ idx = 0
    /\ nodeRacks = EmptyMap
    /\ patches = <<>>
    /\ ret = NoRet
    /\ trace = NoTrace
    /\ pass = 1
    /\ prev = [mode |-> "first", pc |-> "start", ret |-> NoRet,
               nodeRacks |-> EmptyMap, patches |-> <<>>,
               topologyLabels |-> EmptyMap]

\* lines 111-121 on the rack map, with minRacks = cfg.MinNodes
SynthApply ==
    /\ pc = "synth"
    /\ Len(synth) = 1
    /\ synth' = Append(synth, SynthesizeRacks(synth[1], Cardinality(DOMAIN synth[1]),
                                             cfg.MinNodes))
    /\ UNCHANGED <<nodes, cfg, topologySet, topologyLabels, statusFD, nodeCount, pc, idx,
                   nodeRacks, patches, ret, trace, input, pass, prev, filt>>

SynthNext == SynthApply

SpecSynth == SynthInit /\ [][SynthNext]_vars

-----------------------------------------------------------------------------
(* C8, C9: filterDeprecatedLabels *)

Deprecations ==
    {<<BetaZoneKey, ZoneKey>>, <<OldZoneKey, ZoneKey>>,
     <<BetaRegionKey, RegionKey>>, <<OldRegionKey, RegionKey>>}

\* the value set of a key, for a key the map holds
ValueSet(m, k) == Range(m[k])

SameEntry(before, after, k) ==
    /\ (k \in DOMAIN after) = (k \in DOMAIN before)
    /\ k \in DOMAIN before => ValueSet(after, k) = ValueSet(before, k)

\* C8: after filterDeprecatedLabels a deprecated key is absent from the map when
\* its value set equals the value set of its canonical key; when the value sets
\* differ, or the canonical key is absent, the deprecated key and the canonical
\* key are both there as before, with the value sets they had.
C8_DeprecatedDroppedIffSame ==
    Len(filt) >= 2 =>
        \A d \in Deprecations :
            LET before == filt[1]
                after == filt[2]
                old == d[1]
                new == d[2]
            IN IF old \in DOMAIN before /\ new \in DOMAIN before
                  /\ ValueSet(before, old) = ValueSet(before, new)
               THEN old \notin DOMAIN after /\ SameEntry(before, after, new)
               ELSE SameEntry(before, after, old) /\ SameEntry(before, after, new)

\* a deprecated zone key given in another order than the canonical key, with the
\* same values, is dropped, while a deprecated key that differs in one value stays
C8_Witness ==
    /\ Len(filt) >= 2
    /\ BetaZoneKey \in DOMAIN filt[1] /\ ZoneKey \in DOMAIN filt[1]
    /\ filt[1][BetaZoneKey] # filt[1][ZoneKey]
    /\ Len(filt[1][ZoneKey]) = 2
    /\ BetaZoneKey \notin DOMAIN filt[2]
    /\ OldZoneKey \in DOMAIN filt[2] /\ ZoneKey \in DOMAIN filt[2]
    /\ Cardinality(ValueSet(filt[1], OldZoneKey) \ ValueSet(filt[1], ZoneKey)) = 1

\* C9: filterDeprecatedLabels applied twice leaves the map that one application
\* leaves: the same keys with the same values.
C9_FilterIdempotent == Len(filt) >= 3 => filt[3] = filt[2]

\* the first application dropped a deprecated key and sorted another
C9_Witness ==
    /\ Len(filt) >= 3
    /\ DOMAIN filt[2] # DOMAIN filt[1]
    /\ \E k \in DOMAIN filt[2] : filt[2][k] # filt[1][k]

-----------------------------------------------------------------------------
(* C1, C2, C3: the branch determineFailureDomain takes *)

\* C1 as stated: in every call that starts with a failure-domain type T recorded
\* in the status, the type returned is T.
C1_StickyInEveryCall ==
    (pc = "done" /\ input.statusFD # "") => ret.Type = input.statusFD

\* C1: every call that returns without error and started with a type T recorded
\* in the status returns type T, whatever the topology map, the nodes and the
\* flags are; and when the caller records the type a pass returned, the next
\* pass that returns without error returns that type.
C1_StickyWhenReturned ==
    /\ (pc = "done" /\ ret.err = "" /\ input.statusFD # "") => ret.Type = input.statusFD
    /\ (pc = "done" /\ ret.err = "" /\ prev.mode = "next" /\ prev.ret.err = "")
          => ret.Type = prev.ret.Type

\* the pass before returned zone, flexible scaling is now on and no zone key of
\* the topology map has enough values: zone is returned again
C1_Witness ==
    /\ pc = "done" /\ ret.err = ""
    /\ prev.mode = "next" /\ prev.ret.Type = "zone" /\ prev.ret.err = ""
    /\ cfg.FlexibleScaling
    /\ \A k \in DOMAIN topologyLabels : SubstringOf(k, "zone") => Len(topologyLabels[k]) < 2
    /\ ret.Type = "zone"

\* C2 as stated: every call that returns without error with FlexibleScaling on
\* returns type host, whatever the status records.
C2_FlexAlwaysHost ==
    (pc = "done" /\ ret.err = "" /\ cfg.FlexibleScaling) => ret.Type = "host"

\* C2: every call that returns without error with FlexibleScaling on and no
\* failure-domain type recorded in the status returns type host, whatever the
\* topology map holds, and assigns no rack.
C2_FlexHostUnlessCached ==
    (pc = "done" /\ ret.err = "" /\ cfg.FlexibleScaling /\ input.statusFD = "")
        => ret.Type = "host" /\ patches = <<>> /\ trace.placements = <<>>

\* host is returned although a zone key with three values is in the map
C2_Witness ==
    /\ pc = "done" /\ ret.err = "" /\ cfg.FlexibleScaling /\ input.statusFD = ""
    /\ \E k \in DOMAIN topologyLabels :
          SubstringOf(k, "zone") /\ Cardinality(Range(topologyLabels[k])) >= 3
    /\ ret.Type = "host"

\* the threshold of C3: a key containing "zone" with at least 3 distinct values,
\* or at least 2 in arbiter mode
C3_Qualifies(m, arbiter) ==
    \E k \in DOMAIN m :
        /\ SubstringOf(k, "zone")
        /\ Cardinality(Range(m[k])) >= (IF arbiter THEN 2 ELSE 3)

\* C3 as stated: with no cached type and FlexibleScaling off, a call returns type
\* zone if and only if a zone key of the filtered topology map qualifies.
C3_ZoneIffQualifiesEveryCall ==
    (pc = "done" /\ input.statusFD = "" /\ ~cfg.FlexibleScaling)
        => (ret.Type = "zone"
              <=> C3_Qualifies(filterDeprecatedLabels(topologyLabels), cfg.Arbiter))

\* C3: with no cached type and FlexibleScaling off, a call that got the list of
\* nodes takes the zone branch, and returns type zone, if and only if a key of
\* the filtered topology map containing "zone" has at least 3 distinct values, or
\* at least 2 in arbiter mode; otherwise, unless discovery failed, it goes on to
\* the rack branch.
C3_ZoneIffQualifies ==
    (pc \in {"racks", "done", "panic"} /\ trace.listed
     /\ input.statusFD = "" /\ ~cfg.FlexibleScaling)
        => LET q == C3_Qualifies(filterDeprecatedLabels(topologyLabels), cfg.Arbiter)
           IN /\ (trace.branch = "zone") <=> q
              /\ pc = "done" => ((ret.Type = "zone") <=> q)
              /\ (~q /\ trace.discovery # "failed") => trace.branch = "rack"
              /\ trace.branch = "rack" => ret.Type \in {"", "rack"}

\* arbiter off, a zone key with exactly two values: the rack branch is taken
C3_Witness ==
    /\ pc = "done" /\ ret.err = "" /\ input.statusFD = ""
    /\ ~cfg.FlexibleScaling /\ ~cfg.Arbiter
    /\ \E k \in DOMAIN topologyLabels :
          SubstringOf(k, "zone") /\ Cardinality(Range(topologyLabels[k])) = 2
    /\ trace.branch = "rack" /\ ret.Type = "rack"

-----------------------------------------------------------------------------
(* C4, C5, C6, C7: rack assignment *)

NodeNamed(name) == nodes[CHOOSE i \in 1..Len(nodes) : nodes[i].Name = name]

\* the zone values a node's labels give
ZonesOf(name) == TargetAZs(NodeNamed(name)) \ {""}

\* two nodes with zone values, none in common
ZonesDiffer(n1, n2) ==
    ZonesOf(n1) # {} /\ ZonesOf(n2) # {} /\ ZonesOf(n1) \cap ZonesOf(n2) = {}

InRackBranch == pc \in {"racks", "done", "panic"} /\ trace.branch = "rack"

\* no label of a node contains "rack"
NoRackLabels ==
    \A i \in 1..Len(nodes) : \A l \in DOMAIN nodes[i].Labels : ~SubstringOf(l, "rack")

NoZoneLabels == \A i \in 1..Len(nodes) : ZonesOf(nodes[i].Name) = {}

RacksOf(name) == {r \in DOMAIN nodeRacks : name \in Range(nodeRacks[r])}

\* C4: in every state during and after ensureNodeRacks, no rack holds a node
\* that ensureNodeRacks placed in it together with a node whose zone values
\* differ from its own, and a node with a zone was placed only in a rack that was
\* empty or held a member of its zone.
C4_ZoneConsistentRacks ==
    InRackBranch =>
        \A n \in 1..Len(trace.placements) :
            LET p == trace.placements[n]
            IN p.rack # "" =>
                /\ \A m \in Range(nodeRacks[p.rack]) : ~ZonesDiffer(p.node, m)
                /\ p.az # "" =>
                      \/ p.before[p.rack] = <<>>
                      \/ \E m \in Range(p.before[p.rack]) : p.az \in ZonesOf(m)

Balanced ==
    \A r1, r2 \in DOMAIN nodeRacks : Len(nodeRacks[r1]) - Len(nodeRacks[r2]) <= 1

\* C5 as stated: with minimum rack count 3 and no node carrying a rack label,
\* after ensureNodeRacks completes, and after every assignment, there are at least
\* 3 racks and, when no node carries a zone label, the rack sizes differ by at
\* most one.
C5_BalancedRacks ==
    (InRackBranch /\ cfg.MinNodes = 3 /\ NoRackLabels
     /\ (trace.placements # <<>> \/ (pc = "done" /\ ret.err = "")))
        => /\ Cardinality(DOMAIN nodeRacks) >= 3
           /\ NoZoneLabels => Balanced

\* C5: with minimum rack count 3 and at least one node, none carrying a rack
\* label, after every assignment of ensureNodeRacks and when it completes there
\* are at least 3 racks and, when no node carries a zone label, the largest rack
\* has at most one member more than the smallest.
C5_BalancedRacksSomeNode ==
    (InRackBranch /\ cfg.MinNodes = 3 /\ NoRackLabels /\ Len(nodes) >= 1
     /\ (trace.placements # <<>> \/ (pc = "done" /\ ret.err = "")))
        => /\ Cardinality(DOMAIN nodeRacks) >= 3
           /\ NoZoneLabels => Balanced

\* five nodes without zone or rack labels end in racks of 2, 2 and 1
C5_Witness ==
    /\ pc = "done" /\ ret.Type = "rack" /\ cfg.MinNodes = 3
    /\ NoRackLabels /\ NoZoneLabels /\ Len(nodes) = 5
    /\ Cardinality(DOMAIN nodeRacks) = 3
    /\ {Len(nodeRacks[r]) : r \in DOMAIN nodeRacks} = {1, 2}

\* six nodes, three in zone a and three in zone b, without rack labels
TwoZoneScenario ==
    /\ Len(nodes) = 6
    /\ Cardinality({i \in 1..6 : ZonesOf(nodes[i].Name) = {"a"}}) = 3
    /\ Cardinality({i \in 1..6 : ZonesOf(nodes[i].Name) = {"b"}}) = 3
    /\ NoRackLabels
    /\ ~cfg.Arbiter /\ ~cfg.FlexibleScaling /\ input.statusFD = ""

\* C6: in the two-zone scenario the call goes on to rack assignment, which
\* completes for every order of the nodes; when no patch fails it returns type
\* rack and leaves exactly 3 racks, every node in one rack, each rack holding
\* nodes of exactly one zone.
C6_TwoZoneScenario ==
    TwoZoneScenario =>
        /\ pc # "panic"
        /\ (pc \in {"racks", "done"} /\ trace.listed) => trace.branch = "rack"
        /\ (pc = "done" /\ ret.err = "") =>
              /\ ret.Type = "rack"
              /\ Cardinality(DOMAIN nodeRacks) = 3
              /\ \A i \in 1..6 : Cardinality(RacksOf(nodes[i].Name)) = 1
              /\ \A r \in DOMAIN nodeRacks :
                    Cardinality(UNION {ZonesOf(n) : n \in Range(nodeRacks[r])}) = 1

\* C7: whenever ensureNodeRacks returns without error, every node of the list is
\* a member of exactly one rack of the rack membership map.
C7_ExactlyOneRack ==
    (pc = "done" /\ trace.branch = "rack" /\ ret.err = "")
        => \A i \in 1..Len(nodes) : Cardinality(RacksOf(nodes[i].Name)) = 1

-----------------------------------------------------------------------------
(* C10: a pass run again on the same inputs *)

\* C10: two runs from the same node list, status and flags in which no call to
\* the cluster fails end the same way, with the same type returned, the same rack
\* membership and the same label patches.
C10_SameInputsSameOutcome ==
    (pc \in {"done", "panic"} /\ prev.mode = "rerun"
     /\ ret.err = "" /\ prev.ret.err = "")
        => /\ pc = prev.pc
           /\ ret.Type = prev.ret.Type
           /\ nodeRacks = prev.nodeRacks
           /\ patches = prev.patches

-----------------------------------------------------------------------------
(* C11, C12: discovery and the minimum number of nodes *)

\* C11: when discovery runs (the node list was obtained and the topology map was
\* unset) and there are fewer nodes than the minimum, the call returns an error
\* and no type, no branch of the selector is evaluated, the topology map holds
\* no label, no rack is computed and no label patch is applied.
C11_InsufficientNodesFatal ==
    (pc # "start" /\ trace.listed /\ ~input.topologySet /\ Len(nodes) < cfg.MinNodes)
        => /\ pc = "done"
           /\ ret.err = "topology" /\ ret.Type = "" /\ ret.Key = "" /\ ret.Values = <<>>
           /\ trace.discovery = "failed" /\ trace.branch = "none"
           /\ DOMAIN topologyLabels = {}
           /\ patches = <<>> /\ trace.placements = <<>>

\* one node with a zone label where three are required: the call fails and the
\* zone label is not in the topology map
C11_Witness ==
    /\ pc = "done" /\ ~input.topologySet
    /\ Len(nodes) = 1 /\ cfg.MinNodes = 3 /\ input.statusFD = ""
    /\ ZoneKey \in DOMAIN nodes[1].Labels
    /\ ret.err = "topology" /\ ret.Type = ""
    /\ DOMAIN topologyLabels = {}

\* C12: in every call that obtained the node list and started with a topology
\* map that was unset or held no labels, discovery ran, and a branch of the
\* selector was evaluated only after discovery, with its check of the minimum
\* number of nodes, had succeeded.
C12_DiscoveryBeforeSelection ==
    (pc # "start" /\ trace.listed
     /\ (~input.topologySet \/ DOMAIN input.topologyLabels = {}))
        => /\ trace.discovery # "none"
           /\ trace.branch # "none" => trace.discovery = "ok"

\* the state C12 names: the pass before failed in discovery for want of nodes,
\* this pass on the same cluster goes to a branch without discovery
C12_AfterFailedDiscovery ==
    /\ pc # "start" /\ prev.mode = "next" /\ prev.ret.err = "topology"
    /\ Len(nodes) < cfg.MinNodes
    /\ trace.discovery = "none" /\ trace.branch = "rack"

-----------------------------------------------------------------------------
(* C13, C14: the loop of ensureNodeRacks over the nodes *)

IndexOf(name) == CHOOSE i \in 1..Len(nodes) : nodes[i].Name = name

\* C13: when the label patch of a node fails, that node is the last one a rack
\* was computed for, the call has returned the error and no type, the loop stays
\* at that node, and the patches applied so far are exactly those of the nodes
\* placed before it; the next pass finds those nodes carrying their rack label.
C13_PatchFailureAborts ==
    /\ InRackBranch =>
          \A n \in 1..Len(trace.placements) :
              LET p == trace.placements[n]
              IN (p.rack # "" /\ ~p.patched) =>
                    /\ n = Len(trace.placements)
                    /\ pc = "done" /\ ret.err = "patch" /\ ret.Type = ""
                    /\ idx = IndexOf(p.node)
                    /\ patches = [k \in 1..(n - 1) |->
                                    <<trace.placements[k].node, trace.placements[k].rack>>]
    /\ (pc = "done" /\ ret.err = "patch") =>
          /\ trace.placements # <<>>
          /\ ~trace.placements[Len(trace.placements)].patched
    /\ (prev.mode = "next" /\ prev.ret.err = "patch") =>
          \A k \in 1..Len(prev.patches) :
              LET node == NodeNamed(prev.patches[k][1])
              IN /\ RackTopologyKey \in DOMAIN node.Labels
                 /\ node.Labels[RackTopologyKey] = prev.patches[k][2]

\* the patch of the second of three unlabelled nodes failed after the patch of
\* the first was applied; the third node has no rack
C13_Witness ==
    /\ pc = "done" /\ ret.err = "patch" /\ ret.Type = ""
    /\ Len(nodes) = 3 /\ NoRackLabels
    /\ Len(patches) = 1 /\ Len(trace.placements) = 2 /\ idx = 2
    /\ RacksOf(nodes[3].Name) = {}

\* the values of the labels of a node whose key contains "rack"
RackLabelValues(node) ==
    {node.Labels[l] : l \in {k \in DOMAIN node.Labels : SubstringOf(k, "rack")}}

\* C14: during and after ensureNodeRacks, a node that carried a rack label when
\* it started gets no label patch, no rack is computed for it, and the racks it
\* is a member of are exactly the values of its rack labels.
C14_LabelledNodesKept ==
    InRackBranch =>
        \A i \in 1..Len(nodes) :
            RackLabelValues(nodes[i]) # {} =>
                /\ \A n \in 1..Len(patches) : patches[n][1] # nodes[i].Name
                /\ \A n \in 1..Len(trace.placements) :
                      trace.placements[n].node # nodes[i].Name
                /\ RacksOf(nodes[i].Name) = RackLabelValues(nodes[i])

\* a node labelled rack1 stays there while two unlabelled nodes are placed and
\* patched in the same pass
C14_Witness ==
    /\ pc = "done" /\ ret.Type = "rack" /\ Len(nodes) = 3
    /\ RackLabelValues(nodes[2]) = {"rack1"}
    /\ RacksOf(nodes[2].Name) = {"rack1"}
    /\ Len(patches) = 2

-----------------------------------------------------------------------------
(* C15: the four branches *)

\* the values the topology map holds under keys containing "rack"
RackValuesIn(m) == UNION {Range(m[k]) : k \in {x \in DOMAIN m : SubstringOf(x, "rack")}}

\* the rack values discovery reads from the labels of the nodes
NodeRackValues ==
    UNION {{nodes[i].Labels[l] :
              l \in {k \in DOMAIN nodes[i].Labels :
                        SubstringOf(k, "rack") /\ IsValidTopologyLabel(k)}} :
           i \in 1..Len(nodes)}

\* the first branch, in the order cached, flexible scaling, zone, rack, whose
\* condition holds
FirstBranch ==
    IF input.statusFD # "" THEN "cached"
    ELSE IF cfg.FlexibleScaling THEN "flex"
    ELSE IF C3_Qualifies(filterDeprecatedLabels(topologyLabels), cfg.Arbiter) THEN "zone"
    ELSE "rack"

\* C15 as stated: a call that returns through the cached, flexible-scaling or
\* zone branch applies no label patch and leaves the topology map with the rack
\* values it had when the call started.
C15_NoRackValueAdded ==
    (pc = "done" /\ trace.branch \in {"cached", "flex", "zone"})
        => /\ patches = <<>>
           /\ RackValuesIn(topologyLabels) \subseteq RackValuesIn(input.topologyLabels)

\* C15: the branch a call takes is the first, in the order cached, flexible
\* scaling, zone, rack, whose condition holds; a call that returns through one
\* of the first three computes no rack, applies no label patch and leaves in
\* the topology map the rack values it started with or, when discovery ran in
\* the call, those discovery read from the nodes' labels; and type rack is
\* returned without a cached type only by the rack branch, after the loop of
\* ensureNodeRacks has passed every node without error and every node is in a
\* rack.
C15_BranchesTerminal ==
    /\ (pc \in {"racks", "done", "panic"} /\ trace.branch # "none")
          => trace.branch = FirstBranch
    /\ (pc = "done" /\ trace.branch \in {"cached", "flex", "zone"})
          => /\ ret.err = ""
             /\ patches = <<>> /\ trace.placements = <<>> /\ nodeRacks = EmptyMap
             /\ RackValuesIn(topologyLabels) =
                    IF input.topologySet THEN RackValuesIn(input.topologyLabels)
                    ELSE NodeRackValues
    /\ (pc = "done" /\ ret.Type = "rack" /\ input.statusFD = "")
          => /\ trace.branch = "rack" /\ ret.err = ""
             /\ idx > Len(nodes)
             /\ \A i \in 1..Len(nodes) : RacksOf(nodes[i].Name) # {}
             /\ \A n \in 1..Len(trace.placements) : trace.placements[n].patched

\* a call on an unset topology map returns zone; discovery put the rack label of
\* a node into the map, and no node was patched
C15_Witness ==
    /\ pc = "done" /\ trace.branch = "zone" /\ ret.Type = "zone"
    /\ ~input.topologySet /\ trace.discovery = "ok"
    /\ RackValuesIn(topologyLabels) = {"rack1"}
    /\ patches = <<>>
    /\ \E i \in 1..Len(nodes) : RackLabelValues(nodes[i]) = {}

-----------------------------------------------------------------------------
(* C16: the rack determinePlacementRack returns *)

\* C16: whenever determinePlacementRack returns, the rack it returns is one of
\* the candidates, no candidate has fewer members, and of the candidates with
\* as few members it has the smallest name in lexicographic order.
C16_FewestThenSmallestName ==
    \A n \in 1..Len(trace.placements) :
        LET p == trace.placements[n]
            size(r) == Len(p.before[r])
        IN p.rack # "" =>
              /\ p.rack \in Range(p.candidates)
              /\ \A c \in Range(p.candidates) : size(c) >= size(p.rack)
              /\ \A c \in Range(p.candidates) :
                    size(c) = size(p.rack) => (c = p.rack \/ StrLess(p.rack, c))

\* three candidates, the first in order holds a node and the other two are
\* empty: the second is returned
C16_Witness ==
    \E n \in 1..Len(trace.placements) :
        LET p == trace.placements[n]
        IN /\ p.candidates = <<"rack0", "rack1", "rack2">>
           /\ Len(p.before["rack0"]) = 1
           /\ Len(p.before["rack1"]) = 0 /\ Len(p.before["rack2"]) = 0
           /\ p.rack = "rack1"

-----------------------------------------------------------------------------
(* C17: rack synthesis *)

\* C17: after step 1 of determinePlacementRack on any rack map, the map holds at
\* least minRacks rack names, every rack that was there is still there with the
\* members it had, and every rack that was added is named rack<index> and has
\* no members.
C17_SynthesisFloor ==
    Len(synth) >= 2 =>
        LET before == synth[1]
            after == synth[2]
        IN /\ Cardinality(DOMAIN after) >= cfg.MinNodes
           /\ \A r \in DOMAIN before : r \in DOMAIN after /\ after[r] = before[r]
           /\ \A r \in (DOMAIN after) \ (DOMAIN before) :
                 /\ after[r] = <<>>
                 /\ \E j \in 0..cfg.MinNodes : r = "rack" \o Itoa(j)

\* rack1 with a member and rackA are there, four racks are required: rack0 and
\* rack2 are added and rack1 keeps its member
C17_Witness ==
    /\ Len(synth) >= 2 /\ cfg.MinNodes = 4
    /\ DOMAIN synth[1] = {"rack1", "rackA"} /\ synth[1]["rack1"] = <<"n1">>
    /\ DOMAIN synth[2] = {"rack0", "rack1", "rack2", "rackA"}
    /\ synth[2]["rack1"] = <<"n1">>

-----------------------------------------------------------------------------
(* C18: ensureNodeRacks run again on the nodes an earlier run patched *)

\* the nodes the pass before patched
PatchedBefore == {prev.patches[k][1] : k \in 1..Len(prev.patches)}

\* C18: when ensureNodeRacks runs on the nodes as the patches of the pass before
\* left them, it patches only nodes that carry no rack label and none that the
\* pass before patched, every node the pass before patched is in the rack that
\* pass gave it and in no other, and when the pass before had completed the rack
\* assignment no rack is computed, no patch is applied and the topology map is
\* left as it was.
C18_RetrySafe ==
    (prev.mode \in {"next", "retry"} /\ InRackBranch) =>
        /\ \A n \in 1..Len(patches) :
              /\ RackLabelValues(NodeNamed(patches[n][1])) = {}
              /\ patches[n][1] \notin PatchedBefore
        /\ \A k \in 1..Len(prev.patches) :
              RacksOf(prev.patches[k][1]) = {prev.patches[k][2]}
        /\ (prev.pc = "done" /\ prev.ret.err = "" /\ prev.ret.Type = "rack") =>
              /\ patches = <<>> /\ trace.placements = <<>>
              /\ topologyLabels = prev.topologyLabels

\* the first run patched one node and failed on the second; the second run
\* patches the two nodes that were left and returns rack
C18_Witness ==
    /\ prev.mode = "next" /\ prev.ret.err = "patch" /\ Len(prev.patches) = 1
    /\ pc = "done" /\ ret.Type = "rack" /\ Len(nodes) = 3
    /\ Len(patches) = 2

\* the first run completed; the second run finds every node labelled
C18_AfterCompleteRun ==
    /\ prev.mode = "retry" /\ prev.ret.Type = "rack" /\ Len(prev.patches) = 3
    /\ pc = "done" /\ ret.Type = "rack" /\ patches = <<>>

-----------------------------------------------------------------------------
(* C19: the candidates of determinePlacementRack *)

\* C19: in every call of determinePlacementRack made by ensureNodeRacks the list
\* of candidate racks is not empty when the first of them is taken, and the call
\* returns a rack of the rack map.
C19_AlwaysACandidate ==
    /\ pc # "panic"
    /\ \A n \in 1..Len(trace.placements) :
          LET p == trace.placements[n]
          IN p.candidates # <<>> /\ p.rack \in DOMAIN p.before

-----------------------------------------------------------------------------
(* C20: the key and values returned with type zone *)

\* C20: whenever a call returns type zone through the zone branch, the key it
\* returns is a key of the topology map that contains "zone" and has at least 3
\* distinct values, or at least 2 in arbiter mode, and the values it returns
\* are the values of that key.
C20_ZoneKeyQualifies ==
    (pc = "done" /\ trace.branch = "zone" /\ ret.err = "") =>
        /\ ret.Type = "zone"
        /\ ret.Key \in DOMAIN topologyLabels
        /\ SubstringOf(ret.Key, "zone")
        /\ Cardinality(Range(topologyLabels[ret.Key])) >= (IF cfg.Arbiter THEN 2 ELSE 3)
        /\ Range(ret.Values) = Range(topologyLabels[ret.Key])

====
